---- MODULE Spec2Model ----
(***************************************************************************)
(* Model of actstream/actions.py: the follow registry (follow, unfollow,   *)
(* is_following, set_all_email_notifications) and the action recorder      *)
(* (action_handler, send_email_notifications).                             *)
(*                                                                         *)
(* The Follow table is state: every operation reads it.  The Action table  *)
(* and the mail gateway are sinks: this code only appends to them and      *)
(* never reads them back, so the model keeps, for the call that produced   *)
(* the current state, the rows it saved and the batches it handed over.    *)
(***************************************************************************)
EXTENDS Naturals, Sequences, FiniteSets, Bags, TLC

VARIABLES follows, profile, call

vars == <<follows, profile, call>>

(* Bound of the model: the rows the Follow table can hold *)
MaxFollows == 2

None == "None"

(* Entities: a model instance is its class (kind) and its primary key. *)
u1 == [kind |-> "user", pk |-> "1"]
u2 == [kind |-> "user", pk |-> "2"]
g1 == [kind |-> "group", pk |-> "1"]
x1 == [kind |-> "tag", pk |-> "1"]

Users == {u1, u2}
Objects == {u1, g1, x1}

(* settings.MODELS: the kinds registered as actionable *)
ActionableKinds == {"user", "group"}

(* check_actionable_model(obj): TRUE when it passes, FALSE when it raises *)
check_actionable_model(obj) == obj.kind \in ActionableKinds

(* ContentType.objects.get_for_model(obj) *)
get_for_model(obj) == obj.kind

(* settings.USE_JSONFIELD *)
USE_JSONFIELD == TRUE

(* ----------------------------------------------------------------------- *)
(* Follow table: a bag of rows (rows differ by primary key only).          *)

FollowRow(user, obj, actor_only, send_email) ==
    [user |-> user.pk, content_type |-> get_for_model(obj),
     object_id |-> obj.pk, actor_only |-> actor_only, send_email |-> send_email]

RECURSIVE SumCopies(_, _)
SumCopies(B, S) ==
    IF S = {} THEN 0
    ELSE LET r == CHOOSE x \in S : TRUE IN B[r] + SumCopies(B, S \ {r})

(* Follow.objects.filter(user=user, object_id=obj.pk, content_type=...) *)
FilterUserObj(fol, user, obj) ==
    {r \in DOMAIN fol : /\ r.user = user.pk
                        /\ r.object_id = obj.pk
                        /\ r.content_type = get_for_model(obj)}

(* a filter that forgets the user *)
FilterUser_any(fol, user) == DOMAIN fol

(* Follow.objects.filter(user=user) *)
FilterUser(fol, user) == {r \in DOMAIN fol : r.user = user.pk}

(* QuerySet.count() *)
Count(fol, rows) == SumCopies(fol, rows)

(* QuerySet.delete() *)
Delete(fol, rows) == [r \in (DOMAIN fol) \ rows |-> fol[r]]

(* Follow.objects.get_or_create: get, or create when no row matches *)
get_or_create(fol, row) ==
    LET n == CopiesIn(row, fol) IN
    IF n > 1 THEN [error |-> "MultipleObjectsReturned", created |-> FALSE, follows |-> fol]
    ELSE IF n = 1 THEN [error |-> None, created |-> FALSE, follows |-> fol]
    ELSE [error |-> None, created |-> TRUE, follows |-> fol (+) SetToBag({row})]

(* ----------------------------------------------------------------------- *)
(* Keyword arguments: a function from key names to values.                 *)

Pop(kw, key, default) == IF key \in DOMAIN kw THEN kw[key] ELSE default

Without(kw, keys) == [k \in (DOMAIN kw) \ keys |-> kw[k]]

(* A verb is a plain string or a lazy translation proxy; unicode() forces it *)
Lazy(text) == [lazy |-> TRUE, text |-> text]
Plain(text) == [lazy |-> FALSE, text |-> text]
unicode(verb) == verb.text

(* now() *)
Now == "now"

(* ----------------------------------------------------------------------- *)
(* send_email_notifications                                                *)

UserList == <<u1, u2>>

Email(u) == <<"email", u.pk>>

(* actstream.models.action_followers: the users following the action's actor *)
action_followers(action, fol) ==
    SelectSeq(UserList,
              LAMBDA u : \E r \in DOMAIN fol :
                            /\ r.user = u.pk
                            /\ r.content_type = action.actor_content_type
                            /\ r.object_id = action.actor_object_id)

(* render_to_string(template, {"action": action}): a text as a sequence of tokens *)
render_to_string(template, action) ==
    IF template = "message_subject.txt"
    THEN <<"subject", action.verb, " ", "\n">>
    ELSE <<"body", action.verb, "\n">>

Whitespace == {" ", "\n", "\t"}

RECURSIVE rstrip(_)
rstrip(text) ==
    IF text # <<>> /\ text[Len(text)] \in Whitespace
    THEN rstrip(SubSeq(text, 1, Len(text) - 1))
    ELSE text

(* getattr(django_settings, "CONTACT_EMAIL", {}) *)
from_addr == "CONTACT_EMAIL"

(* every follower, whatever the profile says *)
Recipients_all(users, prof) == users

(* the recipients kept by the list comprehension of line 102 *)
Recipients(users, prof) == SelectSeq(users, LAMBDA u : prof[u])

(* the batch built at line 110 *)
EmailBatch(users, subject, message) ==
    [i \in 1..Len(users) |-> <<subject, message, from_addr, <<Email(users[i])>> >>]

Faults == {"none", "render", "mail"}

(* fault: which collaborator raises, if any. mail is what send_mass_mail is *)
(* handed: no batch when rendering raised first.                           *)
send_email_notifications(action, fol, prof, fault) ==
    LET users == Recipients(action_followers(action, fol), prof)
        subject == rstrip(render_to_string("message_subject.txt", action))
        message == render_to_string("message_body.txt", action)
        email_batch == EmailBatch(users, subject, message)
    IN  IF fault = "render"
        THEN [error |-> "TemplateError", mail |-> <<>>]
        ELSE [error |-> IF fault = "mail" THEN "MailError" ELSE None,
              mail |-> <<email_batch>>]

(* ----------------------------------------------------------------------- *)
(* action_handler                                                          *)

HandlerKeys == {"signal", "sender", "public", "description", "timestamp",
                "target", "action_object"}

(* bool(kwargs.pop('public', True)) *)
bool(v) == v = TRUE

(* the Action instance built at lines 122-139 *)
NewAction(verb, kw) ==
    LET actor == kw["sender"]
        rest == Without(kw, HandlerKeys)
    IN  [actor_content_type |-> get_for_model(actor),
         actor_object_id |-> actor.pk,
         verb |-> unicode(verb),
         public |-> bool(Pop(kw, "public", TRUE)),
         description |-> Pop(kw, "description", None),
         timestamp |-> Pop(kw, "timestamp", Now),
         target_object_id |-> IF "target" \in DOMAIN kw THEN kw["target"].pk ELSE None,
         target_content_type |->
             IF "target" \in DOMAIN kw THEN get_for_model(kw["target"]) ELSE None,
         action_object_object_id |->
             IF "action_object" \in DOMAIN kw THEN kw["action_object"].pk ELSE None,
         action_object_content_type |->
             IF "action_object" \in DOMAIN kw
             THEN get_for_model(kw["action_object"]) ELSE None,
         data |-> IF USE_JSONFIELD /\ Cardinality(DOMAIN rest) > 0 THEN rest ELSE <<>>]

(* only the actor is checked *)
HandlerValidates_actor(kw) == check_actionable_model(kw["sender"])

(* the checks of lines 121 and 134: the actor, then each object that is given *)
HandlerValidates(kw) ==
    /\ check_actionable_model(kw["sender"])
    /\ \A opt \in {"target", "action_object"} :
          opt \in DOMAIN kw => check_actionable_model(kw[opt])

(* the record is saved and nobody is notified *)
HandlerEffects_save_only(newaction) == <<[step |-> "save", action |-> newaction]>>

(* lines 140-141: newaction.save(), then send_email_notifications(newaction). *)
(* Nothing in the handler takes the saved row back when the second step raises *)
HandlerEffects(newaction) ==
    <<[step |-> "save", action |-> newaction],
      [step |-> "notify", action |-> newaction]>>

(* save and notification in one transaction: a failed dispatch takes the row back *)
action_handler_atomic(verb, kw, fol, prof, fault) ==
    IF ~HandlerValidates(kw)
    THEN [error |-> "UnregisteredEntityError", log |-> <<>>, mail |-> <<>>]
    ELSE LET newaction == NewAction(verb, kw)
             sent == send_email_notifications(newaction, fol, prof, fault)
         IN  [error |-> sent.error,
              log |-> IF sent.error = None THEN HandlerEffects(newaction) ELSE <<>>,
              mail |-> sent.mail]

action_handler(verb, kw, fol, prof, fault) ==
    IF ~HandlerValidates(kw)
    THEN [error |-> "UnregisteredEntityError", log |-> <<>>, mail |-> <<>>]
    ELSE LET newaction == NewAction(verb, kw)
             sent == send_email_notifications(newaction, fol, prof, fault)
         IN  [error |-> sent.error, log |-> HandlerEffects(newaction),
              mail |-> sent.mail]

(* action.send(sender, verb=..., target=...): the signal bus runs the handler *)
Event(sender, verb, target) == [sender |-> sender, verb |-> verb, target |-> target]

action_send(sender, verb, target, fol, prof, fault) ==
    action_handler(verb, [signal |-> "action", sender |-> sender, target |-> target],
                   fol, prof, fault)

(* ----------------------------------------------------------------------- *)
(* The follow registry. Each operation yields its outcome and what it did: *)
(* outcome is "returned" or the name of the exception raised.              *)

Result(outcome, result, fol, h, events) ==
    [outcome |-> outcome, result |-> result, follows |-> fol, log |-> h.log,
     mail |-> h.mail, events |-> events]

NoHandler == [error |-> None, log |-> <<>>, mail |-> <<>>]

Outcome(error) == IF error = None THEN "returned" ELSE error

(* the entity is checked after the relationship is looked up or created *)
follow_check_late(user, obj, send_action, actor_only, email_notification, fol, prof, fault) ==
    LET g == get_or_create(fol, FollowRow(user, obj, actor_only, email_notification))
    IN  IF g.error # None
        THEN Result(g.error, FALSE, fol, NoHandler, <<>>)
        ELSE IF ~check_actionable_model(obj)
        THEN Result("UnregisteredEntityError", FALSE, g.follows, NoHandler, <<>>)
        ELSE IF send_action /\ g.created
        THEN LET verb == Lazy("started following")
                 h == action_send(user, verb, obj, g.follows, prof, fault)
             IN  Result(Outcome(h.error), TRUE, g.follows, h,
                        <<Event(user, verb, obj)>>)
        ELSE Result("returned", TRUE, g.follows, NoHandler, <<>>)

follow(user, obj, send_action, actor_only, email_notification, fol, prof, fault) ==
    IF ~check_actionable_model(obj)
    THEN Result("UnregisteredEntityError", FALSE, fol, NoHandler, <<>>)
    ELSE LET g == get_or_create(fol, FollowRow(user, obj, actor_only, email_notification))
         IN  IF g.error # None
             THEN Result(g.error, FALSE, fol, NoHandler, <<>>)
             ELSE IF send_action /\ g.created
             THEN LET verb == Lazy("started following")
                      h == action_send(user, verb, obj, g.follows, prof, fault)
                  IN  Result(Outcome(h.error), TRUE, g.follows, h,
                             <<Event(user, verb, obj)>>)
             ELSE Result("returned", TRUE, g.follows, NoHandler, <<>>)

(* one row of set_all_email_notifications' loop: f.send_email = enable; f.save() *)
SetSendEmail(r, enable) == [r EXCEPT !.send_email = enable]

set_all_email_notifications(user, enable, fol) ==
    LET follow_list == FilterUser(fol, user)
        kept == Delete(fol, follow_list)
        saved == {SetSendEmail(r, enable) : r \in follow_list}
        updated == [s \in saved |->
                      SumCopies(fol, {r \in follow_list : SetSendEmail(r, enable) = s})]
    IN  kept (+) updated

(* a filter that also asks for the default actor_only *)
DeleteMatching_actor_only(fol, user, obj) ==
    Delete(fol, {r \in FilterUserObj(fol, user, obj) : r.actor_only})

(* lines 69-70: filter(user, object_id, content_type).delete() *)
DeleteMatching(fol, user, obj) == Delete(fol, FilterUserObj(fol, user, obj))

(* the event is sent only when a relationship was deleted *)
unfollow_send_if_deleted(user, obj, send_action, fol, prof, fault) ==
    IF ~check_actionable_model(obj)
    THEN Result("UnregisteredEntityError", FALSE, fol, NoHandler, <<>>)
    ELSE LET left == DeleteMatching(fol, user, obj)
         IN  IF send_action /\ left # fol
             THEN LET verb == Lazy("stopped following")
                      h == action_send(user, verb, obj, left, prof, fault)
                  IN  Result(Outcome(h.error), FALSE, left, h,
                             <<Event(user, verb, obj)>>)
             ELSE Result("returned", FALSE, left, NoHandler, <<>>)

unfollow(user, obj, send_action, fol, prof, fault) ==
    IF ~check_actionable_model(obj)
    THEN Result("UnregisteredEntityError", FALSE, fol, NoHandler, <<>>)
    ELSE LET left == DeleteMatching(fol, user, obj)
         IN  IF send_action
             THEN LET verb == Lazy("stopped following")
                      h == action_send(user, verb, obj, left, prof, fault)
                  IN  Result(Outcome(h.error), FALSE, left, h,
                             <<Event(user, verb, obj)>>)
             ELSE Result("returned", FALSE, left, NoHandler, <<>>)

is_following(user, obj, fol) ==
    IF ~check_actionable_model(obj)
    THEN Result("UnregisteredEntityError", FALSE, fol, NoHandler, <<>>)
    ELSE Result("returned", Count(fol, FilterUserObj(fol, user, obj)) > 0,
                fol, NoHandler, <<>>)

(* ----------------------------------------------------------------------- *)
(* The state machine: one action per entry point. call describes the call  *)
(* that produced the current state: its arguments, how many rows the store *)
(* held for its pair before it ran, which collaborator failed, how the call *)
(* ended, the events it sent, the Action rows it saved and the records it  *)
(* ran the notification on (log, in order), and the mail batches it handed *)
(* to the gateway.                                                         *)

Before(user, obj) == Count(follows, FilterUserObj(follows, user, obj))

Done(res) ==
    [outcome |-> res.outcome, result |-> res.result, events |-> res.events,
     log |-> res.log, mail |-> res.mail]

Saved(done) == SelectSeq(done.log, LAMBDA e : e.step = "save")
Notified(done) == SelectSeq(done.log, LAMBDA e : e.step = "notify")

(* user.get_profile().email_notification of each user *)
Profiles == [Users -> BOOLEAN]
OneProfile == [u \in Users |-> u = u1]

Init ==
    /\ follows = EmptyBag
    /\ profile = OneProfile
    /\ call = [op |-> "init"]

InitNotify ==
    /\ follows = EmptyBag
    /\ profile \in Profiles
    /\ call = [op |-> "init"]

(* a collaborator can only fail in a call that gets to the notification *)
FaultsIf(notifies) == IF notifies THEN Faults ELSE {"none"}

FollowWith(ActorOnly, EmailNotification) ==
    \E user \in Users, obj \in Objects, send_action \in BOOLEAN,
       actor_only \in ActorOnly, email_notification \in EmailNotification :
        \E ok \in {follow(user, obj, send_action, actor_only, email_notification,
                          follows, profile, "none")} :
        \E fault \in FaultsIf(ok.log # <<>>) :
        \E res \in {IF fault = "none" THEN ok
                     ELSE follow(user, obj, send_action, actor_only,
                                 email_notification, follows, profile, fault)} :
            /\ BagCardinality(res.follows) <= MaxFollows
            /\ follows' = res.follows
            /\ UNCHANGED profile
            /\ call' = [op |-> "follow", user |-> user, obj |-> obj,
                        send_action |-> send_action, before |-> Before(user, obj),
                        fault |-> fault, done |-> Done(res)]

Follow == FollowWith(BOOLEAN, BOOLEAN)

(* follow(user, obj) and follow(user, obj, send_action=False): default flags *)
FollowDefault == FollowWith({TRUE}, {FALSE})

Unfollow ==
    \E user \in Users, obj \in Objects, send_action \in BOOLEAN :
        \E ok \in {unfollow(user, obj, send_action, follows, profile, "none")} :
        \E fault \in FaultsIf(ok.log # <<>>) :
        \E res \in {IF fault = "none" THEN ok
                     ELSE unfollow(user, obj, send_action, follows, profile, fault)} :
            /\ follows' = res.follows
            /\ UNCHANGED profile
            /\ call' = [op |-> "unfollow", user |-> user, obj |-> obj,
                        send_action |-> send_action, before |-> Before(user, obj),
                        fault |-> fault, done |-> Done(res)]

IsFollowing ==
    \E user \in Users, obj \in Objects :
        \E res \in {is_following(user, obj, follows)} :
            /\ follows' = res.follows
            /\ UNCHANGED profile
            /\ call' = [op |-> "is_following", user |-> user, obj |-> obj,
                        before |-> Before(user, obj), fault |-> "none",
                        done |-> Done(res)]

SetAllEmailNotifications ==
    \E user \in Users, enable \in BOOLEAN :
        /\ follows' = set_all_email_notifications(user, enable, follows)
        /\ UNCHANGED profile
        /\ call' = [op |-> "set_all_email_notifications", user |-> user,
                    enable |-> enable, fault |-> "none",
                    done |-> Done(Result("returned", FALSE, follows, NoHandler, <<>>))]

(* the keyword arguments the action signal is received with *)
HandlerInputs ==
    {[signal |-> "action", sender |-> x1],
     [signal |-> "action", sender |-> u1],
     [signal |-> "action", sender |-> u1, target |-> x1],
     [signal |-> "action", sender |-> u1, target |-> g1, action_object |-> x1],
     [signal |-> "action", sender |-> u1, target |-> g1, action_object |-> u2,
      public |-> FALSE, description |-> "d", timestamp |-> "t0", note |-> "n"]}

ActionHandler ==
    \E kw \in HandlerInputs, verb \in {Plain("commented")} :
        \E ok \in {action_handler(verb, kw, follows, profile, "none")} :
        \E fault \in FaultsIf(ok.log # <<>>) :
        \E h \in {IF fault = "none" THEN ok
                   ELSE action_handler(verb, kw, follows, profile, fault)} :
            /\ UNCHANGED <<follows, profile>>
            /\ call' = [op |-> "action_handler", verb |-> verb, kw |-> kw,
                        fault |-> fault,
                        done |-> Done(Result(Outcome(h.error), FALSE, follows,
                                             h, <<>>))]

Next ==
    \/ Follow
    \/ Unfollow
    \/ IsFollowing
    \/ SetAllEmailNotifications
    \/ ActionHandler

Spec == Init /\ [][Next]_vars

(* the recorder under every notification preference, follows made with the *)
(* default flags                                                           *)
NextNotify ==
    \/ FollowDefault
    \/ Unfollow
    \/ IsFollowing
    \/ SetAllEmailNotifications
    \/ ActionHandler

SpecNotify == InitNotify /\ [][NextNotify]_vars

(* ----------------------------------------------------------------------- *)
(* Properties                                                              *)

Registered(obj) == obj.kind \in ActionableKinds

RowsOf(fol, user, obj) ==
    {r \in DOMAIN fol : r.user = user.pk /\ r.content_type = obj.kind
                                          /\ r.object_id = obj.pk}

StartedFollowing(user, obj) == Event(user, Lazy("started following"), obj)
StoppedFollowing(user, obj) == Event(user, Lazy("stopped following"), obj)

(* C1: the store never holds more than one Follow row for a (user, entity) *)
(* pair, whatever flags the follow calls passed.                           *)
C1_OneRelationshipPerPair ==
    \A user \in Users, obj \in Objects :
        SumCopies(follows, RowsOf(follows, user, obj)) <= 1

(* C2: right after follow(user, entity) returns, is_following(user, entity) *)
(* is true; right after unfollow(user, entity) returns, it is false,        *)
(* however many rows the pair had.                                          *)
C2_FollowThenIsFollowing ==
    /\ (call.op = "follow" /\ call.done.outcome = "returned")
          => LET q == is_following(call.user, call.obj, follows)
             IN  q.outcome = "returned" /\ q.result
    /\ (call.op = "unfollow" /\ call.done.outcome = "returned")
          => LET q == is_following(call.user, call.obj, follows)
             IN  q.outcome = "returned" /\ ~q.result

C2_Witness ==
    /\ call.op = "unfollow"
    /\ call.done.outcome = "returned"
    /\ call.before >= 2

(* C3: follow with send_action emits exactly one "started following" event *)
(* (sender user, target entity) when the pair had no row before the call,  *)
(* and no event when the pair already had one; without send_action it      *)
(* emits none.                                                             *)
C3_FollowEvents ==
    (call.op = "follow" /\ Registered(call.obj)) =>
        /\ (call.send_action /\ call.before = 0)
              => call.done.events = <<StartedFollowing(call.user, call.obj)>>
        /\ (call.send_action /\ call.before > 0) => call.done.events = <<>>
        /\ ~call.send_action => call.done.events = <<>>

(* C4: set_all_email_notifications(user, enable) leaves every row of user  *)
(* with send_email = enable, leaves the rows of other users as they were,  *)
(* creates and deletes no row and changes no other field.                  *)
SameButEmail(r, t) ==
    /\ r.user = t.user
    /\ r.content_type = t.content_type
    /\ r.object_id = t.object_id
    /\ r.actor_only = t.actor_only

C4_SetAllEmailNotifications ==
    [][call'.op = "set_all_email_notifications" =>
        LET rows == DOMAIN follows \cup DOMAIN follows'
        IN  /\ \A r \in DOMAIN follows' :
                  r.user = call'.user.pk => r.send_email = call'.enable
            /\ \A r \in rows :
                  r.user # call'.user.pk => CopiesIn(r, follows') = CopiesIn(r, follows)
            /\ \A r \in rows :
                  SumCopies(follows', {t \in DOMAIN follows' : SameButEmail(r, t)})
                    = SumCopies(follows, {t \in DOMAIN follows : SameButEmail(r, t)})
    ]_vars

C4_Witness ==
    /\ call.op = "set_all_email_notifications"
    /\ \E r \in DOMAIN follows : r.user = call.user.pk /\ ~r.actor_only
    /\ \E r \in DOMAIN follows : r.user # call.user.pk /\ r.send_email # call.enable

(* C5: action_handler given an unregistered actor, target or action_object *)
(* ends in UnregisteredEntityError, saves no Action row and hands no mail  *)
(* to the gateway.                                                         *)
C5_HandlerRejectsUnregistered ==
    (/\ call.op = "action_handler"
     /\ \E k \in {"sender", "target", "action_object"} \cap DOMAIN call.kw :
           ~Registered(call.kw[k]))
    => /\ call.done.outcome = "UnregisteredEntityError"
       /\ call.done.log = <<>>
       /\ call.done.mail = <<>>

C5_Witness ==
    /\ call.op = "action_handler"
    /\ Registered(call.kw["sender"])
    /\ "target" \in DOMAIN call.kw
    /\ Registered(call.kw["target"])
    /\ "action_object" \in DOMAIN call.kw
    /\ ~Registered(call.kw["action_object"])
    /\ call.done.outcome = "UnregisteredEntityError"

(* C6: action_handler given a registered actor and neither target nor      *)
(* action_object saves exactly one Action row, with that actor, that verb  *)
(* and empty target and action_object references, and then runs            *)
(* send_email_notifications exactly once, on that row.                     *)
C6_HandlerSavesThenNotifies ==
    (/\ call.op = "action_handler"
     /\ Registered(call.kw["sender"])
     /\ "target" \notin DOMAIN call.kw
     /\ "action_object" \notin DOMAIN call.kw)
    => LET log == call.done.log
       IN  /\ Len(log) = 2
           /\ log[1].step = "save"
           /\ log[2].step = "notify"
           /\ log[2].action = log[1].action
           /\ log[1].action.actor_content_type = call.kw["sender"].kind
           /\ log[1].action.actor_object_id = call.kw["sender"].pk
           /\ log[1].action.verb = call.verb.text
           /\ log[1].action.target_content_type = None
           /\ log[1].action.target_object_id = None
           /\ log[1].action.action_object_content_type = None
           /\ log[1].action.action_object_object_id = None

C6_Witness ==
    /\ call.op = "action_handler"
    /\ DOMAIN call.kw = {"signal", "sender"}
    /\ Registered(call.kw["sender"])
    /\ call.done.outcome = "returned"
    /\ Len(Saved(call.done)) = 1

(* C7: follow, unfollow and is_following given an unregistered entity end  *)
(* in UnregisteredEntityError with the Follow table untouched and no event *)
(* sent, whatever send_action is.                                          *)
C7_RegistryRejectsUnregistered ==
    [][(call'.op \in {"follow", "unfollow", "is_following"} /\ ~Registered(call'.obj))
       => /\ call'.done.outcome = "UnregisteredEntityError"
          /\ follows' = follows
          /\ call'.done.events = <<>>
          /\ call'.done.log = <<>>
    ]_vars

C7_Witness ==
    /\ call.op = "follow"
    /\ ~Registered(call.obj)
    /\ call.send_action
    /\ call.done.outcome = "UnregisteredEntityError"
    /\ follows # EmptyBag

(* C8: when the notification fails (rendering or the mail gateway raises)  *)
(* the failure reaches the caller and the Action row saved by the call     *)
(* stays saved; in a follow call the Follow row it created stays too.      *)
C8_NoRollback ==
    (call.op \in {"action_handler", "follow"} /\ call.fault # "none")
    => /\ call.done.outcome =
            (IF call.fault = "render" THEN "TemplateError" ELSE "MailError")
       /\ Len(Saved(call.done)) = 1
       /\ call.op = "follow"
            => SumCopies(follows, RowsOf(follows, call.user, call.obj))
                 = call.before + 1

C8_Witness ==
    /\ call.op = "follow"
    /\ call.fault = "mail"
    /\ call.done.outcome = "MailError"
    /\ Len(Saved(call.done)) = 1

(* C9: send_email_notifications hands the gateway one batch holding        *)
(* exactly one message per user who follows the action's actor and whose   *)
(* profile permits email, each to that user's address alone, all with the  *)
(* rendered subject and body and the configured from-address; an empty     *)
(* recipient set gives an empty batch.                                     *)
PermittedFollowers(action) ==
    {u \in Users :
        /\ profile[u]
        /\ \E r \in DOMAIN follows :
              /\ r.user = u.pk
              /\ r.content_type = action.actor_content_type
              /\ r.object_id = action.actor_object_id}

C9_OneMessagePerRecipient ==
    (/\ call.op \in {"action_handler", "follow", "unfollow"}
     /\ Notified(call.done) # <<>>
     /\ call.fault # "render")
    => LET action == Notified(call.done)[1].action
           expected == PermittedFollowers(action)
           mail == call.done.mail
       IN  /\ Len(mail) = 1
           /\ Len(mail[1]) = Cardinality(expected)
           /\ \A u \in expected :
                 \E i \in 1..Len(mail[1]) : mail[1][i][4] = <<Email(u)>>
           /\ \A i \in 1..Len(mail[1]) :
                 /\ \E u \in expected : mail[1][i][4] = <<Email(u)>>
                 /\ mail[1][i][1] = <<"subject", action.verb>>
                 /\ mail[1][i][2] = <<"body", action.verb, "\n">>
                 /\ mail[1][i][3] = from_addr

C9_Witness ==
    /\ call.op = "action_handler"
    /\ call.fault = "none"
    /\ Len(call.done.mail) = 1
    /\ Len(call.done.mail[1]) = 1
    /\ \E u \in Users :
          /\ ~profile[u]
          /\ \E r \in DOMAIN follows :
                r.user = u.pk /\ r.content_type = "user" /\ r.object_id = "1"

(* C10: unfollow on a registered entity deletes the pair's rows and, with  *)
(* send_action, emits exactly one "stopped following" event (sender user,  *)
(* target entity) whether or not the pair had a row; without send_action   *)
(* it emits none; rows of other users or other entities stay as they were. *)
C10_UnfollowEventsAndFrame ==
    [][(call'.op = "unfollow" /\ Registered(call'.obj)) =>
        /\ call'.send_action
              => call'.done.events = <<StoppedFollowing(call'.user, call'.obj)>>
        /\ ~call'.send_action => call'.done.events = <<>>
        /\ RowsOf(follows', call'.user, call'.obj) = {}
        /\ \A r \in (DOMAIN follows \cup DOMAIN follows')
                        \ RowsOf(follows, call'.user, call'.obj) :
              CopiesIn(r, follows') = CopiesIn(r, follows)
    ]_vars

C10_Witness ==
    /\ call.op = "unfollow"
    /\ call.send_action
    /\ call.before = 0
    /\ call.done.events = <<StoppedFollowing(call.user, call.obj)>>
    /\ follows # EmptyBag

====
